---- MODULE Spec2Model ----
(***************************************************************************)
(* Verification-session state machine of business_ivr_system.py:           *)
(* BusinessIVRSystem (rate limiter, session store) and the webhook         *)
(* handlers that drive it.                                                 *)
(*                                                                         *)
(* Two specifications share the state:                                     *)
(*   Spec        every webhook handler runs to completion as one step      *)
(*               (requests served one after the other);                    *)
(*   SpecThreads the handlers run on concurrent request threads and        *)
(*               interleave between their reads and writes of the shared   *)
(*               dictionaries (the development server is threaded).        *)
(*                                                                         *)
(* Python dictionaries are functions with a finite domain: `k in d` is     *)
(* k \in DOMAIN d.  A session is a dict object; verification_sessions      *)
(* holds a reference to it, and so does the local `session` of a running   *)
(* verify_code, hence the heap.  Strings of digits are sequences of        *)
(* digits.  Time is in whole seconds.                                      *)
(***************************************************************************)
EXTENDS Integers, Sequences, FiniteSets, TLC

\* ------------------------------------------------------------------ bounds

\* The clock stops advancing past MaxTime.
MaxTime == 601
\* Length of the per-number history: the start of the session and the verify_code
\* outcomes after it.
MaxHist == 6

\* ------------------------------------------------------- program constants

RATE_LIMIT_SECONDS == 300
EXPIRY_SECONDS == 600
MAX_ATTEMPTS == 3
CODE_MIN == 100000
CODE_MAX == 999999

\* ------------------------------------------------------------ input domains

\* request.form.get('From', ''): the caller numbers.
Phones == {"+15551234567", "+15557654321"}

\* The numbers whose /incoming-call and /verify_code requests are enumerated; the
\* other number only chooses from the menu, so that its session is there to be left
\* alone.
Callers == {"+15551234567"}
Verifiers == {"+15551234567"}

\* Integers the random source is sampled at (both ends of the code range and
\* their outer neighbours).
SampleInts == {99999, 100000, 999999, 1000000}

\* Steps of the wall clock between two events.
TickSteps == {299, 300, 301}

\* ---------------------------------------------------------------- helpers

RECURSIVE str(_)
\* str(n) for n >= 0: the decimal digits, most significant first.
str(n) == IF n < 10 THEN <<n>> ELSE Append(str(n \div 10), n % 10)

RECURSIVE IntOf(_)
\* The numeric value of a string of digits.
IntOf(s) == IF s = <<>> THEN 0 ELSE 10 * IntOf(SubSeq(s, 1, Len(s) - 1)) + s[Len(s)]

\* random.randint(a, b): any integer N with a <= N <= b.
randint(a, b) == {n \in SampleInts : a <= n /\ n <= b}

\* request.form.get('Digits', '') of /verify_code.
EnteredCodes == {str(100000), str(999999), <<0, 0, 0, 0, 0, 0>>}

\* request.form.get('Digits', '') of /handle_verification_choice.
Choices == {<<1>>, <<2>>, <<9>>, <<>>}

EmptyDict == [k \in {} |-> 0]
\* d[k] = v
Put(d, k, v) == [x \in DOMAIN d \cup {k} |-> IF x = k THEN v ELSE d[x]]
\* del d[k], for k in d
Del(d, k) == [x \in DOMAIN d \ {k} |-> d[x]]
Range(d) == {d[x] : x \in DOMAIN d}

\* ------------------------------------------------------------------- state

VARIABLES
    now,                    \* wall clock: time.time(), datetime.now()
    verification_sessions,  \* self.verification_sessions: number -> session object
    heap,                   \* the session dict objects: object -> its fields
    rate_limits,            \* self.rate_limits: number -> time of last allowed call
    pc,                     \* request threads: position in the handler
    frame,                  \* request threads: the handler's arguments and locals
    last,                   \* the last completed request and its outcome
    history,                \* per number: outcomes of verify_code since its session began
    allowed_at,             \* per number: when /incoming-call last let it through
    stage                   \* per number: what its voice call is waiting for

vars == <<now, verification_sessions, heap, rate_limits, pc, frame, last, history,
          allowed_at, stage>>

Threads == {"t1", "t2"}

\* Session objects are named by their number and a serial.
Serials == 0 .. Cardinality(Threads)
ObjIds == Phones \X Serials

\* dict.get(k) when k is not in the dict (None), as an object reference.
NoRef == <<>>

\* The objects some thread still refers to.
Held(fr) == {fr[t].session : t \in {u \in Threads : fr[u].session # NoRef}}

\* The name of a new object for number p: the first serial nothing will refer to
\* once the new object is stored under p.
NewObj(vs, fr, p) ==
    LET used == Held(fr) \cup Range(Del(vs, p))
    IN <<p, CHOOSE g \in Serials : <<p, g>> \notin used /\ \A h \in 0 .. g - 1 : <<p, h>> \in used>>

\* Reference counting: an object nothing refers to is gone.
Collect(hp, vs, fr) == [o \in DOMAIN hp \cap (Range(vs) \cup Held(fr)) |-> hp[o]]

IdleFrame == [handler |-> "none", phone |-> "", digits |-> <<>>, session |-> NoRef,
              loaded |-> 0, stored |-> FALSE, outcome |-> "none"]

\* ------------------------------------------------- BusinessIVRSystem methods

\* check_rate_limit stamping the time of a denied call as well.
check_rate_limit_stamps_denied(rl, p, t) ==
    [ret |-> ~(p \in DOMAIN rl /\ t - rl[p] < RATE_LIMIT_SECONDS),
     rate_limits |-> Put(rl, p, t)]

\* check_rate_limit that stamps a number on its first call only.
check_rate_limit_keeps_first_stamp(rl, p, t) ==
    IF p \in DOMAIN rl
    THEN [ret |-> ~(t - rl[p] < RATE_LIMIT_SECONDS), rate_limits |-> rl]
    ELSE [ret |-> TRUE, rate_limits |-> Put(rl, p, t)]

\* check_rate_limit(phone_number) at time t: the returned flag and the map after.
check_rate_limit(rl, p, t) ==
    IF p \in DOMAIN rl /\ t - rl[p] < RATE_LIMIT_SECONDS
    THEN [ret |-> FALSE, rate_limits |-> rl]
    ELSE [ret |-> TRUE, rate_limits |-> Put(rl, p, t)]

\* random.randint(0, 999999): codes of fewer than six digits.
CodeDraws_from_zero == randint(0, CODE_MAX)

\* The values random.randint(100000, 999999) can return.
CodeDraws == randint(CODE_MIN, CODE_MAX)

\* The session dict built by generate_verification_code at time t for the draw n.
NewSession(n, t) ==
    [code |-> str(n), expires |-> t + EXPIRY_SECONDS, attempts |-> 0, created |-> t]

\* generate_verification_code(phone_number) at time t, the random draw being n:
\* the returned code, and the session map and heap after.
generate_verification_code(vs, hp, fr, p, t, n) ==
    LET o == NewObj(vs, fr, p)
        vs2 == Put(vs, p, o)
    IN [ret |-> str(n), vs |-> vs2, heap |-> Collect(Put(hp, o, NewSession(n, t)), vs2, fr)]

\* verify_code with the attempt limit tested by > instead of >=.
verify_code_limit_off_by_one(vs, hp, fr, p, entered, t) ==
    IF p \notin DOMAIN vs
    THEN [ret |-> "NoSession", attempts |-> 0, vs |-> vs, heap |-> hp]
    ELSE LET o == vs[p]
             session == hp[o]
             gone == Del(vs, p)
             bumped == Put(hp, o, [session EXCEPT !.attempts = @ + 1])
         IN IF t > session.expires
            THEN [ret |-> "Expired", attempts |-> session.attempts, vs |-> gone, heap |-> Collect(hp, gone, fr)]
            ELSE IF session.attempts > MAX_ATTEMPTS
            THEN [ret |-> "TooManyAttempts", attempts |-> session.attempts, vs |-> gone, heap |-> Collect(hp, gone, fr)]
            ELSE IF entered = session.code
            THEN [ret |-> "Success", attempts |-> session.attempts + 1, vs |-> gone, heap |-> Collect(bumped, gone, fr)]
            ELSE [ret |-> "Mismatch", attempts |-> session.attempts + 1, vs |-> vs, heap |-> bumped]

\* verify_code that leaves the session in place after a correct code.
verify_code_keeps_session(vs, hp, fr, p, entered, t) ==
    IF p \notin DOMAIN vs
    THEN [ret |-> "NoSession", attempts |-> 0, vs |-> vs, heap |-> hp]
    ELSE LET o == vs[p]
             session == hp[o]
             gone == Del(vs, p)
             bumped == Put(hp, o, [session EXCEPT !.attempts = @ + 1])
         IN IF t > session.expires
            THEN [ret |-> "Expired", attempts |-> session.attempts, vs |-> gone, heap |-> Collect(hp, gone, fr)]
            ELSE IF session.attempts >= MAX_ATTEMPTS
            THEN [ret |-> "TooManyAttempts", attempts |-> session.attempts, vs |-> gone, heap |-> Collect(hp, gone, fr)]
            ELSE IF entered = session.code
            THEN [ret |-> "Success", attempts |-> session.attempts + 1, vs |-> vs, heap |-> bumped]
            ELSE [ret |-> "Mismatch", attempts |-> session.attempts + 1, vs |-> vs, heap |-> bumped]

\* verify_code testing the attempt limit before the deadline.
verify_code_limit_before_expiry(vs, hp, fr, p, entered, t) ==
    IF p \notin DOMAIN vs
    THEN [ret |-> "NoSession", attempts |-> 0, vs |-> vs, heap |-> hp]
    ELSE LET o == vs[p]
             session == hp[o]
             gone == Del(vs, p)
             bumped == Put(hp, o, [session EXCEPT !.attempts = @ + 1])
         IN IF session.attempts >= MAX_ATTEMPTS
            THEN [ret |-> "TooManyAttempts", attempts |-> session.attempts, vs |-> gone, heap |-> Collect(hp, gone, fr)]
            ELSE IF t > session.expires
            THEN [ret |-> "Expired", attempts |-> session.attempts, vs |-> gone, heap |-> Collect(hp, gone, fr)]
            ELSE IF entered = session.code
            THEN [ret |-> "Success", attempts |-> session.attempts + 1, vs |-> gone, heap |-> Collect(bumped, gone, fr)]
            ELSE [ret |-> "Mismatch", attempts |-> session.attempts + 1, vs |-> vs, heap |-> bumped]

\* verify_code answering a number that has no session as a wrong code.
verify_code_missing_is_mismatch(vs, hp, fr, p, entered, t) ==
    IF p \notin DOMAIN vs
    THEN [ret |-> "Mismatch", attempts |-> 0, vs |-> vs, heap |-> hp]
    ELSE LET o == vs[p]
             session == hp[o]
             gone == Del(vs, p)
             bumped == Put(hp, o, [session EXCEPT !.attempts = @ + 1])
         IN IF t > session.expires
            THEN [ret |-> "Expired", attempts |-> session.attempts, vs |-> gone, heap |-> Collect(hp, gone, fr)]
            ELSE IF session.attempts >= MAX_ATTEMPTS
            THEN [ret |-> "TooManyAttempts", attempts |-> session.attempts, vs |-> gone, heap |-> Collect(hp, gone, fr)]
            ELSE IF entered = session.code
            THEN [ret |-> "Success", attempts |-> session.attempts + 1, vs |-> gone, heap |-> Collect(bumped, gone, fr)]
            ELSE [ret |-> "Mismatch", attempts |-> session.attempts + 1, vs |-> vs, heap |-> bumped]

\* verify_code that drops the session on a wrong code.
verify_code_mismatch_drops_session(vs, hp, fr, p, entered, t) ==
    IF p \notin DOMAIN vs
    THEN [ret |-> "NoSession", attempts |-> 0, vs |-> vs, heap |-> hp]
    ELSE LET o == vs[p]
             session == hp[o]
             gone == Del(vs, p)
             bumped == Put(hp, o, [session EXCEPT !.attempts = @ + 1])
         IN IF t > session.expires
            THEN [ret |-> "Expired", attempts |-> session.attempts, vs |-> gone, heap |-> Collect(hp, gone, fr)]
            ELSE IF session.attempts >= MAX_ATTEMPTS
            THEN [ret |-> "TooManyAttempts", attempts |-> session.attempts, vs |-> gone, heap |-> Collect(hp, gone, fr)]
            ELSE IF entered = session.code
            THEN [ret |-> "Success", attempts |-> session.attempts + 1, vs |-> gone, heap |-> Collect(bumped, gone, fr)]
            ELSE [ret |-> "Mismatch", attempts |-> session.attempts + 1, vs |-> gone, heap |-> Collect(bumped, gone, fr)]

\* verify_code treating the deadline itself as past it (>= instead of >).
verify_code_expires_at_deadline(vs, hp, fr, p, entered, t) ==
    IF p \notin DOMAIN vs
    THEN [ret |-> "NoSession", attempts |-> 0, vs |-> vs, heap |-> hp]
    ELSE LET o == vs[p]
             session == hp[o]
             gone == Del(vs, p)
             bumped == Put(hp, o, [session EXCEPT !.attempts = @ + 1])
         IN IF t >= session.expires
            THEN [ret |-> "Expired", attempts |-> session.attempts, vs |-> gone, heap |-> Collect(hp, gone, fr)]
            ELSE IF session.attempts >= MAX_ATTEMPTS
            THEN [ret |-> "TooManyAttempts", attempts |-> session.attempts, vs |-> gone, heap |-> Collect(hp, gone, fr)]
            ELSE IF entered = session.code
            THEN [ret |-> "Success", attempts |-> session.attempts + 1, vs |-> gone, heap |-> Collect(bumped, gone, fr)]
            ELSE [ret |-> "Mismatch", attempts |-> session.attempts + 1, vs |-> vs, heap |-> bumped]

\* verify_code(phone_number, entered_code) at time t, run to completion: the outcome
\* that selects the spoken message, the attempts of the session object examined when
\* it returns (0 when there was none), and the session map and heap after.
verify_code(vs, hp, fr, p, entered, t) ==
    IF p \notin DOMAIN vs
    THEN [ret |-> "NoSession", attempts |-> 0, vs |-> vs, heap |-> hp]
    ELSE LET o == vs[p]
             session == hp[o]
             gone == Del(vs, p)
             bumped == Put(hp, o, [session EXCEPT !.attempts = @ + 1])
         IN IF t > session.expires
            THEN [ret |-> "Expired", attempts |-> session.attempts, vs |-> gone, heap |-> Collect(hp, gone, fr)]
            ELSE IF session.attempts >= MAX_ATTEMPTS
            THEN [ret |-> "TooManyAttempts", attempts |-> session.attempts, vs |-> gone, heap |-> Collect(hp, gone, fr)]
            ELSE IF entered = session.code
            THEN [ret |-> "Success", attempts |-> session.attempts + 1, vs |-> gone, heap |-> Collect(bumped, gone, fr)]
            ELSE [ret |-> "Mismatch", attempts |-> session.attempts + 1, vs |-> vs, heap |-> bumped]

\* handle_incoming_call(phone_number) at time t.
handle_incoming_call(rl, p, t) ==
    LET r == check_rate_limit(rl, p, t)
    IN [outcome |-> IF r.ret THEN "Menu" ELSE "RateLimited", rate_limits |-> r.rate_limits]

\* handle_verification_choice that sends a code for every choice but "2".
handle_verification_choice_else_generates(vs, hp, fr, p, choice, t, n, sms_sent) ==
    IF choice # <<2>>
    THEN LET g == generate_verification_code(vs, hp, fr, p, t, n)
         IN [outcome |-> IF sms_sent THEN "CodePrompt" ELSE "DispatchFailure",
             code |-> g.ret, vs |-> g.vs, heap |-> g.heap]
    ELSE [outcome |-> "Handoff", code |-> <<>>, vs |-> vs, heap |-> hp]

\* handle_verification_choice that keeps the session only when the code was sent.
handle_verification_choice_drops_undelivered(vs, hp, fr, p, choice, t, n, sms_sent) ==
    IF choice = <<1>>
    THEN LET g == generate_verification_code(vs, hp, fr, p, t, n)
         IN IF sms_sent
            THEN [outcome |-> "CodePrompt", code |-> g.ret, vs |-> g.vs, heap |-> g.heap]
            ELSE [outcome |-> "DispatchFailure", code |-> g.ret, vs |-> vs, heap |-> hp]
    ELSE [outcome |-> IF choice = <<2>> THEN "Handoff" ELSE "InvalidChoice",
          code |-> <<>>, vs |-> vs, heap |-> hp]

\* handle_verification_choice that keeps a session the number already has.
handle_verification_choice_reuses_session(vs, hp, fr, p, choice, t, n, sms_sent) ==
    IF choice = <<1>>
    THEN LET g == IF p \in DOMAIN vs
                  THEN [ret |-> hp[vs[p]].code, vs |-> vs, heap |-> hp]
                  ELSE generate_verification_code(vs, hp, fr, p, t, n)
         IN [outcome |-> IF sms_sent THEN "CodePrompt" ELSE "DispatchFailure",
             code |-> g.ret, vs |-> g.vs, heap |-> g.heap]
    ELSE [outcome |-> IF choice = <<2>> THEN "Handoff" ELSE "InvalidChoice",
          code |-> <<>>, vs |-> vs, heap |-> hp]

\* handle_verification_choice(phone_number, choice) at time t; n is the random
\* draw and sms_sent what send_verification_sms returns.
handle_verification_choice(vs, hp, fr, p, choice, t, n, sms_sent) ==
    IF choice = <<1>>
    THEN LET g == generate_verification_code(vs, hp, fr, p, t, n)
         IN [outcome |-> IF sms_sent THEN "CodePrompt" ELSE "DispatchFailure",
             code |-> g.ret, vs |-> g.vs, heap |-> g.heap]
    ELSE [outcome |-> IF choice = <<2>> THEN "Handoff" ELSE "InvalidChoice",
          code |-> <<>>, vs |-> vs, heap |-> hp]

\* The callback the response asks the provider to gather digits for, by outcome:
\* the menu gathers the choice, the code prompt gathers the code, every other
\* response only speaks and hangs up.
gather_action(outcome) ==
    IF outcome = "Menu" THEN "/handle_verification_choice"
    ELSE IF outcome = "CodePrompt" THEN "/verify_code"
    ELSE "none"

\* Message bodies are sequences of characters.
Whitespace == {" ", "\t", "\n"}
\* str.lower() on the letters the sampled bodies use.
LowerOf == [S |-> "s", T |-> "t", A |-> "a", U |-> "u", H |-> "h", E |-> "e",
            L |-> "l", P |-> "p"]
lower(s) == [i \in DOMAIN s |-> IF s[i] \in DOMAIN LowerOf THEN LowerOf[s[i]] ELSE s[i]]
RECURSIVE lstrip(_)
lstrip(s) == IF s # <<>> /\ Head(s) \in Whitespace THEN lstrip(Tail(s)) ELSE s
RECURSIVE rstrip(_)
rstrip(s) == IF s # <<>> /\ s[Len(s)] \in Whitespace
             THEN rstrip(SubSeq(s, 1, Len(s) - 1)) ELSE s
strip(s) == rstrip(lstrip(s))

Bodies == {<<"s", "t", "a", "t", "u", "s">>,
           <<" ", "S", "t", "a", "t", "u", "s", "\n">>,
           <<"s", "t", "a", " ", "t", "u", "s">>,
           <<"H", "E", "L", "P">>,
           <<"s", "u", "p", "p", "o", "r", "t", " ">>}
\* The numbers that send messages.
Texters == Callers

\* /incoming-sms answering on presence alone only while the session is unexpired.
handle_incoming_sms_status_checks_expiry(vs, hp, p, body, t) ==
    LET message_body == lower(strip(body))
    IN IF message_body \in {<<"h", "e", "l", "p">>, <<"s", "u", "p", "p", "o", "r", "t">>}
       THEN "SmsHelp"
       ELSE IF message_body = <<"s", "t", "a", "t", "u", "s">>
       THEN IF p \in DOMAIN vs /\ t <= hp[vs[p]].expires THEN "SmsPending" ELSE "SmsNoPending"
       ELSE "SmsDefault"

\* /incoming-sms: the reply chosen for a message from p with the given Body.
handle_incoming_sms(vs, hp, p, body, t) ==
    LET message_body == lower(strip(body))
    IN IF message_body \in {<<"h", "e", "l", "p">>, <<"s", "u", "p", "p", "o", "r", "t">>}
       THEN "SmsHelp"
       ELSE IF message_body = <<"s", "t", "a", "t", "u", "s">>
       THEN IF p \in DOMAIN vs THEN "SmsPending" ELSE "SmsNoPending"
       ELSE "SmsDefault"

\* The session stored for p.
Sess(p) == heap[verification_sessions[p]]

\* The session stored for p, if any, as a set.
Stored(vs, hp, p) == IF p \in DOMAIN vs THEN {hp[vs[p]]} ELSE {}

\* -------------------------------------------- requests served one at a time

\* What history records of a verify_code(p, entered) at time t: the outcome, whether
\* the entered code was the stored session's code, and whether the session's
\* deadline had passed.
HistEntry(vs, hp, p, entered, t, outcome) ==
    [outcome |-> outcome,
     correct |-> \E s \in Stored(vs, hp, p) : entered = s.code,
     late |-> \E s \in Stored(vs, hp, p) : t > s.expires]

Started == [outcome |-> "Started", correct |-> FALSE, late |-> FALSE]

Record(h, e) == IF Len(h) < MaxHist THEN Append(h, e) ELSE h

\* last: the handler that ran, its From, the outcome it returned, the code it sent
\* out (choice 1) and, of the session that was stored for From when it began (if
\* any): whether Digits was its code, whether its deadline had passed, its attempts
\* then and (after) when the handler returned.
Done(op, p, outcome, code, prior, digits, t, after) ==
    [op |-> op, phone |-> p, outcome |-> outcome, code |-> code, after |-> after,
     had |-> prior # {},
     correct |-> \E s \in prior : digits = s.code,
     late |-> \E s \in prior : t > s.expires,
     attempts |-> IF prior = {} THEN 0 ELSE (CHOOSE s \in prior : TRUE).attempts]

Init ==
    /\ now = 0
    /\ verification_sessions = EmptyDict
    /\ heap = EmptyDict
    /\ rate_limits = EmptyDict
    /\ pc = [t \in Threads |-> "idle"]
    /\ frame = [t \in Threads |-> IdleFrame]
    /\ last = Done("none", "", "none", <<>>, {}, <<>>, 0, 0)
    /\ history = [p \in Phones |-> <<>>]
    /\ allowed_at = [p \in Phones |-> {}]
    /\ stage = [p \in Phones |-> "idle"]

\* What /incoming-call does to the program's state.
IncomingCallRequest(p) ==
    LET r == handle_incoming_call(rate_limits, p, now)
    IN /\ rate_limits' = r.rate_limits
       /\ last' = Done("incoming_call", p, r.outcome, <<>>, {}, <<>>, now, 0)
       /\ allowed_at' = IF r.outcome = "Menu" THEN [allowed_at EXCEPT ![p] = {now}]
                                              ELSE allowed_at
       /\ UNCHANGED <<now, verification_sessions, heap, pc, frame, history>>

\* POST /incoming-call
IncomingCall(p) == IncomingCallRequest(p) /\ UNCHANGED stage

\* What /handle_verification_choice does to the program's state.
VerificationChoiceRequest(p, choice) ==
    \E n \in CodeDraws, sms_sent \in BOOLEAN :
        LET r == handle_verification_choice(verification_sessions, heap, frame, p, choice,
                                            now, n, sms_sent)
        IN /\ verification_sessions' = r.vs
           /\ heap' = r.heap
           /\ last' = Done("verification_choice", p, r.outcome, r.code,
                           Stored(verification_sessions, heap, p), choice, now, 0)
           /\ history' = IF choice = <<1>> THEN [history EXCEPT ![p] = <<Started>>]
                                           ELSE history
           /\ UNCHANGED <<now, rate_limits, pc, frame, allowed_at>>

\* POST /handle_verification_choice
VerificationChoice(p, choice) == VerificationChoiceRequest(p, choice) /\ UNCHANGED stage

\* What /verify_code does to the program's state.
VerifyCodeRequest(p, entered) ==
    LET r == verify_code(verification_sessions, heap, frame, p, entered, now)
    IN /\ verification_sessions' = r.vs
       /\ heap' = r.heap
       /\ last' = Done("verify_code", p, r.ret, <<>>,
                       Stored(verification_sessions, heap, p), entered, now, r.attempts)
       /\ history' = [history EXCEPT ![p] =
                         Record(@, HistEntry(verification_sessions, heap, p, entered, now, r.ret))]
       /\ UNCHANGED <<now, rate_limits, pc, frame, allowed_at>>

\* POST /verify_code
VerifyCode(p, entered) == VerifyCodeRequest(p, entered) /\ UNCHANGED stage

\* POST /incoming-sms
IncomingSms(p, body) ==
    /\ last' = Done("incoming_sms", p,
                    handle_incoming_sms(verification_sessions, heap, p, body, now),
                    <<>>, {}, <<>>, now, 0)
    /\ UNCHANGED <<now, verification_sessions, heap, rate_limits, pc, frame, history,
                   allowed_at, stage>>

\* Time passes between two requests.
Tick ==
    \E d \in TickSteps :
        /\ now + d <= MaxTime
        /\ now' = now + d
        /\ last' = Done("tick", "", "none", <<>>, {}, <<>>, now, 0)
        /\ UNCHANGED <<verification_sessions, heap, rate_limits, pc, frame, history,
                       allowed_at, stage>>

Next ==
    \/ \E p \in Callers : IncomingCall(p)
    \/ \E p \in Phones, choice \in Choices : VerificationChoice(p, choice)
    \/ \E p \in Verifiers, entered \in EnteredCodes : VerifyCode(p, entered)
    \/ \E p \in Texters, body \in Bodies : IncomingSms(p, body)
    \/ Tick

Spec == Init /\ [][Next]_vars

\* ------------------------------------------------ requests on concurrent threads

\* The clock step of the threaded specification: past a session's lifetime.
ThreadTickSteps == {EXPIRY_SECONDS + 1}

\* The requests the threads serve all come from one number.
ThreadPhones == Callers

\* An increment that reads and writes in one indivisible step.
incremented_atomically(loaded, current) == current + 1

\* The attempts value `session['attempts'] += 1` stores, from the value it loaded
\* and the value the object holds at the store.
incremented(loaded, current) == loaded + 1

\* A request ends: the handler returns its response, or an exception escapes it.
Finish(t, outcome) ==
    /\ pc' = [pc EXCEPT ![t] = "done"]
    /\ frame' = [frame EXCEPT ![t].outcome = outcome, ![t].digits = <<>>]

\* `del self.verification_sessions[phone_number]` by thread t, then the response
\* for `outcome`; the del raises KeyError when the key is gone.
DeleteAndFinish(t, outcome) ==
    LET p == frame[t].phone
    IN IF p \in DOMAIN verification_sessions
       THEN /\ verification_sessions' = Del(verification_sessions, p)
            /\ Finish(t, outcome)
            /\ heap' = Collect(heap, Del(verification_sessions, p), frame)
       ELSE /\ Finish(t, "KeyError")
            /\ UNCHANGED <<verification_sessions, heap>>

\* verify_code, line 206-215: session = self.verification_sessions.get(phone_number)
T_Get(t, p, entered) ==
    /\ pc[t] = "idle"
    /\ IF p \in DOMAIN verification_sessions
       THEN /\ pc' = [pc EXCEPT ![t] = "expiry"]
            /\ frame' = [frame EXCEPT ![t] =
                            [IdleFrame EXCEPT !.handler = "verify_code", !.phone = p,
                                              !.digits = entered,
                                              !.session = verification_sessions[p]]]
       ELSE /\ pc' = [pc EXCEPT ![t] = "done"]
            /\ frame' = [frame EXCEPT ![t] =
                            [IdleFrame EXCEPT !.handler = "verify_code", !.phone = p,
                                              !.outcome = "NoSession"]]
    /\ UNCHANGED <<now, verification_sessions, heap, rate_limits, last, history, allowed_at, stage>>

\* verify_code, line 218-226: the deadline
T_Expiry(t) ==
    /\ pc[t] = "expiry"
    /\ IF now > heap[frame[t].session].expires
       THEN DeleteAndFinish(t, "Expired")
       ELSE /\ pc' = [pc EXCEPT ![t] = "limit"]
            /\ UNCHANGED <<frame, verification_sessions, heap>>
    /\ UNCHANGED <<now, rate_limits, last, history, allowed_at, stage>>

\* verify_code, line 229-237: the attempt limit
T_Limit(t) ==
    /\ pc[t] = "limit"
    /\ IF heap[frame[t].session].attempts >= MAX_ATTEMPTS
       THEN DeleteAndFinish(t, "TooManyAttempts")
       ELSE /\ pc' = [pc EXCEPT ![t] = "load"]
            /\ UNCHANGED <<frame, verification_sessions, heap>>
    /\ UNCHANGED <<now, rate_limits, last, history, allowed_at, stage>>

\* verify_code, line 240: session['attempts'] += 1, the read
T_Load(t) ==
    /\ pc[t] = "load"
    /\ pc' = [pc EXCEPT ![t] = "store"]
    /\ frame' = [frame EXCEPT ![t].loaded = heap[frame[t].session].attempts]
    /\ UNCHANGED <<now, verification_sessions, heap, rate_limits, last, history, allowed_at, stage>>

\* verify_code, line 240: session['attempts'] += 1, the write
T_Store(t) ==
    /\ pc[t] = "store"
    /\ pc' = [pc EXCEPT ![t] = "compare"]
    /\ frame' = [frame EXCEPT ![t].stored = TRUE]
    /\ heap' = [heap EXCEPT ![frame[t].session].attempts =
                                incremented(frame[t].loaded, @)]
    /\ UNCHANGED <<now, verification_sessions, rate_limits, last, history, allowed_at, stage>>

\* verify_code, line 242-261: the comparison
T_Compare(t) ==
    /\ pc[t] = "compare"
    /\ IF frame[t].digits = heap[frame[t].session].code
       THEN DeleteAndFinish(t, "Success")
       ELSE /\ Finish(t, "Mismatch")
            /\ UNCHANGED <<verification_sessions, heap>>
    /\ UNCHANGED <<now, rate_limits, last, history, allowed_at, stage>>

\* handle_verification_choice on a thread: the one write to the shared map is the
\* assignment of line 58.
T_Choice(t, p, choice) ==
    /\ pc[t] = "idle"
    /\ \E n \in CodeDraws, sms_sent \in BOOLEAN :
        LET r == handle_verification_choice(verification_sessions, heap, frame, p, choice,
                                            now, n, sms_sent)
        IN /\ verification_sessions' = r.vs
           /\ heap' = r.heap
           /\ pc' = [pc EXCEPT ![t] = "done"]
           /\ frame' = [frame EXCEPT ![t] =
                           [IdleFrame EXCEPT !.handler = "verification_choice", !.phone = p,
                                             !.outcome = r.outcome]]
    /\ UNCHANGED <<now, rate_limits, last, history, allowed_at, stage>>

\* handle_incoming_call on a thread.
T_Call(t, p) ==
    /\ pc[t] = "idle"
    /\ LET r == handle_incoming_call(rate_limits, p, now)
       IN /\ rate_limits' = r.rate_limits
          /\ pc' = [pc EXCEPT ![t] = "done"]
          /\ frame' = [frame EXCEPT ![t] =
                          [IdleFrame EXCEPT !.handler = "incoming_call", !.phone = p,
                                            !.outcome = r.outcome]]
    /\ UNCHANGED <<now, verification_sessions, heap, last, history, allowed_at, stage>>

\* The response is sent; the thread's locals are dropped.
T_Return(t) ==
    /\ pc[t] = "done"
    /\ pc' = [pc EXCEPT ![t] = "idle"]
    /\ frame' = [frame EXCEPT ![t] = IdleFrame]
    /\ heap' = Collect(heap, verification_sessions, [frame EXCEPT ![t] = IdleFrame])
    /\ UNCHANGED <<now, verification_sessions, rate_limits, last, history, allowed_at, stage>>

\* Time passes while requests are being served.
T_Tick ==
    \E d \in ThreadTickSteps :
        /\ now + d <= MaxTime
        /\ now' = now + d
        /\ UNCHANGED <<verification_sessions, heap, rate_limits, pc, frame, last, history,
                       allowed_at, stage>>

NextThreads ==
    \/ \E t \in Threads, p \in ThreadPhones, entered \in EnteredCodes : T_Get(t, p, entered)
    \/ \E t \in Threads : T_Expiry(t)
    \/ \E t \in Threads : T_Limit(t)
    \/ \E t \in Threads : T_Load(t)
    \/ \E t \in Threads : T_Store(t)
    \/ \E t \in Threads : T_Compare(t)
    \/ \E t \in Threads, p \in ThreadPhones, choice \in Choices : T_Choice(t, p, choice)
    \/ \E t \in Threads, p \in ThreadPhones : T_Call(t, p)
    \/ \E t \in Threads : T_Return(t)
    \/ T_Tick

SpecThreads == Init /\ [][NextThreads]_vars

\* ------------------------------------------- callbacks that follow the call tree

\* The numbers whose calls are followed through the tree.
TreeCallers == Callers

\* Where the response for `outcome` leaves the call: the menu waits for a choice,
\* the code prompt waits for the code, every other response ends in hangup().
stage_after(outcome) ==
    IF gather_action(outcome) = "/handle_verification_choice" THEN "menu"
    ELSE IF gather_action(outcome) = "/verify_code" THEN "code"
    ELSE "idle"

\* A new call from p, which has no call in progress.
Tree_IncomingCall(p) ==
    /\ stage[p] = "idle"
    /\ IncomingCallRequest(p)
    /\ stage' = [stage EXCEPT ![p] = stage_after(last'.outcome)]

\* The digit gathered by the menu of p's call.
Tree_VerificationChoice(p, choice) ==
    /\ stage[p] = "menu"
    /\ VerificationChoiceRequest(p, choice)
    /\ stage' = [stage EXCEPT ![p] = stage_after(last'.outcome)]

\* The digits gathered by the code prompt of p's call.
Tree_VerifyCode(p, entered) ==
    /\ stage[p] = "code"
    /\ VerifyCodeRequest(p, entered)
    /\ stage' = [stage EXCEPT ![p] = stage_after(last'.outcome)]

\* A gather times out or the caller hangs up: the fallback ends the call and no
\* callback is made.
Tree_HangUp(p) ==
    /\ stage[p] # "idle"
    /\ stage' = [stage EXCEPT ![p] = "idle"]
    /\ last' = Done("hangup", p, "none", <<>>, {}, <<>>, now, 0)
    /\ UNCHANGED <<now, verification_sessions, heap, rate_limits, pc, frame, history,
                   allowed_at>>

NextCallTree ==
    \/ \E p \in TreeCallers : Tree_IncomingCall(p)
    \/ \E p \in TreeCallers, choice \in Choices : Tree_VerificationChoice(p, choice)
    \/ \E p \in TreeCallers, entered \in EnteredCodes : Tree_VerifyCode(p, entered)
    \/ \E p \in TreeCallers : Tree_HangUp(p)
    \/ \E p \in Texters, body \in Bodies : IncomingSms(p, body)
    \/ Tick

SpecCallTree == Init /\ [][NextCallTree]_vars

\* ------------------------------------------------------------------ claims

\* A history that begins with the start of a session.
Begun(h) == Len(h) >= 1 /\ h[1].outcome = "Started"

\* The outcome of the i-th verify_code since the session of history h began.
OutcomeAt(h, i) == h[i + 1].outcome
Checks(h) == Len(h) - 1

\* The session of h began, no verify_code since came after its deadline, and the
\* first three entered a code other than the session's.
ThreeWrongInTime(h) ==
    /\ Begun(h)
    /\ \A i \in 1 .. Checks(h) : ~h[i + 1].late
    /\ \A i \in 1 .. Checks(h) : i <= MAX_ATTEMPTS => ~h[i + 1].correct

\* C1 as stated: in such a run the outcomes are Mismatch, Mismatch,
\* TooManyAttempts, NoSession, in that order.
C1_AsStated ==
    \A p \in Phones :
        ThreeWrongInTime(history[p]) =>
            \A i \in 1 .. Checks(history[p]) :
                i <= 4 => OutcomeAt(history[p], i) =
                              <<"Mismatch", "Mismatch", "TooManyAttempts", "NoSession">>[i]

\* C1 amended: for a session that is not expired and not restarted, three
\* consecutive verify_code calls with a wrong code yield Mismatch, Mismatch,
\* Mismatch; the fourth call yields TooManyAttempts and every later one NoSession.
C1_ThreeMismatchesThenLimit ==
    \A p \in Phones :
        ThreeWrongInTime(history[p]) =>
            \A i \in 1 .. Checks(history[p]) :
                OutcomeAt(history[p], i) =
                    IF i <= MAX_ATTEMPTS THEN "Mismatch"
                    ELSE IF i = MAX_ATTEMPTS + 1 THEN "TooManyAttempts"
                    ELSE "NoSession"

\* Five calls after the start of a session, the first three with a wrong code, all
\* before the deadline.
C1_Witness ==
    \E p \in Phones : ThreeWrongInTime(history[p]) /\ Checks(history[p]) >= 5

\* C2: the code is single-use. Since the session began: a verify_code with the
\* session's code, before the deadline and after fewer than three earlier calls,
\* returns Success and removes the session; after a Success every verify_code
\* returns NoSession until a new session begins.
C2_SingleUse ==
    /\ \A p \in Phones :
        Begun(history[p]) =>
            \A i \in 1 .. Checks(history[p]) :
                /\ (history[p][i + 1].correct /\ ~history[p][i + 1].late /\ i - 1 < MAX_ATTEMPTS)
                       => OutcomeAt(history[p], i) = "Success"
                /\ \A j \in 1 .. i - 1 :
                       OutcomeAt(history[p], j) = "Success"
                           => OutcomeAt(history[p], i) = "NoSession"
    /\ (last.op = "verify_code" /\ last.outcome = "Success")
           => last.phone \notin DOMAIN verification_sessions

\* A wrong code, then the right one, then the right one again.
C2_Witness ==
    \E p \in Phones :
        /\ Begun(history[p])
        /\ Checks(history[p]) = 3
        /\ OutcomeAt(history[p], 1) = "Mismatch"
        /\ OutcomeAt(history[p], 2) = "Success"
        /\ OutcomeAt(history[p], 3) = "NoSession"
        /\ last.op = "verify_code" /\ last.phone = p

\* C3: a verify_code that finds a session past its deadline returns Expired and
\* removes the session, whatever the entered code and the attempts used.
C3_ExpiredWhateverElse ==
    (last.op = "verify_code" /\ last.had /\ last.late)
        => /\ last.outcome = "Expired"
           /\ last.phone \notin DOMAIN verification_sessions

\* The session's own code, entered after the deadline, with all attempts used.
C3_Witness ==
    /\ last.op = "verify_code"
    /\ last.late /\ last.correct /\ last.attempts = MAX_ATTEMPTS
    /\ last.outcome = "Expired"

\* C4: /incoming-call lets a number through exactly when it has not been let
\* through before or the last time it was let through is 300 s or more ago.
C4_AllowIffWindowOver ==
    [][\A p \in Phones :
          (last'.op = "incoming_call" /\ last'.phone = p)
              => ((last'.outcome = "Menu")
                     <=> \A a \in allowed_at[p] : now - a >= RATE_LIMIT_SECONDS)]_vars

\* A call turned away 299 s after the last one let through.
C4_Witness ==
    /\ last.op = "incoming_call"
    /\ last.outcome = "RateLimited"
    /\ allowed_at[last.phone] = {now - (RATE_LIMIT_SECONDS - 1)}

\* C5 as stated: no session is created for a number less than 300 s after the
\* previous session creation for it (here: the one still stored for the number).
C5_AsStated ==
    [][\A p \in Phones :
          (last'.op = "verification_choice" /\ last'.phone = p /\ last'.code # <<>>
             /\ p \in DOMAIN verification_sessions)
              => now - Sess(p).created >= RATE_LIMIT_SECONDS]_vars

\* C6: choice 1 always yields a code with a value in [100000, 999999]; afterwards
\* the number's session has that code, attempts 0 and expiry now + 600 s, whatever
\* was stored for it before, and the other numbers' sessions are as they were.
C6_StartSession ==
    [][\A p \in Phones :
          (last'.op = "verification_choice" /\ last'.phone = p
             /\ last'.outcome \in {"CodePrompt", "DispatchFailure"})
              => /\ IntOf(last'.code) \in CODE_MIN .. CODE_MAX
                 /\ Stored(verification_sessions', heap', p) =
                        {[code |-> last'.code, expires |-> now + EXPIRY_SECONDS,
                          attempts |-> 0, created |-> now]}
                 /\ \A q \in Phones \ {p} :
                        Stored(verification_sessions', heap', q) =
                            Stored(verification_sessions, heap, q)]_vars

\* A session with attempts used is replaced, while the other number has one too.
C6_Witness ==
    /\ last.op = "verification_choice"
    /\ last.code # <<>>
    /\ last.had /\ last.attempts = 2
    /\ Sess(last.phone).attempts = 0
    /\ DOMAIN verification_sessions = Phones

\* C7: verify_code for a number with no stored session returns NoSession and
\* changes neither the session store nor the rate-limit map.
C7_NoSession ==
    [][\A p \in Phones :
          (last'.op = "verify_code" /\ last'.phone = p
             /\ p \notin DOMAIN verification_sessions)
              => /\ last'.outcome = "NoSession"
                 /\ verification_sessions' = verification_sessions
                 /\ heap' = heap
                 /\ rate_limits' = rate_limits]_vars

\* NoSession for a number whose session was consumed, the maps not being empty.
C7_Witness ==
    /\ last.op = "verify_code"
    /\ last.outcome = "NoSession"
    /\ Begun(history[last.phone])
    /\ verification_sessions # EmptyDict
    /\ rate_limits # EmptyDict

\* C8: every stored session has 0 <= attempts <= 3.
C8_AttemptsInRange ==
    \A p \in DOMAIN verification_sessions :
        0 <= Sess(p).attempts /\ Sess(p).attempts <= MAX_ATTEMPTS

\* A stored session with all three attempts used.
C8_Witness ==
    \E p \in DOMAIN verification_sessions : Sess(p).attempts = MAX_ATTEMPTS

\* The responses the handlers return.
Responses ==
    {"RateLimited", "Menu", "CodePrompt", "DispatchFailure", "Handoff", "InvalidChoice",
     "NoSession", "Expired", "TooManyAttempts", "Mismatch", "Success"}

\* C9 as stated: every callback invocation, interleaved ones for the same number
\* included, ends by returning one of the user-facing responses, never in an
\* unhandled fault.
C9_AsStated ==
    \A t \in Threads : pc[t] = "done" => frame[t].outcome \in Responses

\* Two verify_code executions that have both written their increment to the same
\* session object after loading the same attempts value from it.
LostUpdate(t, u) ==
    /\ t # u
    /\ frame[t].stored /\ frame[u].stored
    /\ frame[t].session = frame[u].session
    /\ frame[t].loaded = frame[u].loaded

\* C10: when two verify_code executions on the same session both pass the expiry
\* and attempts checks, both load the same attempts value and both store their
\* increment, the session's attempts has grown by 1, not by 2: an update is lost.
C10_LostUpdate ==
    \A t, u \in Threads :
        LostUpdate(t, u) => heap[frame[t].session].attempts = frame[t].loaded + 1

\* Such a pair of executions, on the session still stored for the number.
C10_Witness ==
    \E t, u \in Threads :
        /\ LostUpdate(t, u)
        /\ frame[t].phone \in DOMAIN verification_sessions
        /\ verification_sessions[frame[t].phone] = frame[t].session
        /\ Sess(frame[t].phone).attempts = frame[t].loaded + 1

\* The result verify_code is to give: the first condition that applies, in the
\* order no session, past the deadline, attempts used up, code comparison.
FirstThatApplies(had, late, attempts, correct) ==
    IF ~had THEN "NoSession"
    ELSE IF late THEN "Expired"
    ELSE IF attempts >= MAX_ATTEMPTS THEN "TooManyAttempts"
    ELSE IF correct THEN "Success"
    ELSE "Mismatch"

\* C11: verify_code answers with the first condition that applies (late meaning
\* now strictly after the deadline); Expired and TooManyAttempts leave the attempts
\* of the session as they were, Success and Mismatch add one.
C11_FirstConditionWins ==
    last.op = "verify_code" =>
        /\ last.outcome = FirstThatApplies(last.had, last.late, last.attempts, last.correct)
        /\ last.outcome \in {"Expired", "TooManyAttempts"} => last.after = last.attempts
        /\ last.outcome \in {"Success", "Mismatch"} => last.after = last.attempts + 1

\* A wrong code entered at the very second of the deadline: Mismatch, not Expired.
C11_Witness ==
    /\ last.op = "verify_code"
    /\ last.outcome = "Mismatch"
    /\ last.phone \in DOMAIN verification_sessions
    /\ Sess(last.phone).expires = now

\* C12: a denied /incoming-call leaves rate_limits as it was and an allowed one
\* stamps the caller with the time of the call, so the stamp is always the time of
\* the last allowed call and the block ends 300 s after it.
C12_DeniedLeavesStamp ==
    [][\A p \in Phones :
          (last'.op = "incoming_call" /\ last'.phone = p)
              => /\ last'.outcome = "RateLimited" => rate_limits' = rate_limits
                 /\ last'.outcome = "Menu" => rate_limits' = Put(rate_limits, p, now)
                 /\ allowed_at'[p] = {rate_limits'[p]}
                 /\ last'.outcome = "RateLimited"
                        => \E a \in allowed_at[p] : now - a < RATE_LIMIT_SECONDS]_vars

\* A denied call that found a stamp older than the call and left it.
C12_Witness ==
    /\ last.op = "incoming_call"
    /\ last.outcome = "RateLimited"
    /\ rate_limits[last.phone] > 0
    /\ rate_limits[last.phone] < now

\* C13 as stated: every /incoming-call creates or overwrites the caller's
\* rate-limit entry with the time of the call, allowed or denied.
C13_AsStated ==
    [][\A p \in Phones :
          (last'.op = "incoming_call" /\ last'.phone = p)
              => (p \in DOMAIN rate_limits' /\ rate_limits'[p] = now)]_vars

\* C13 amended: the caller's entry is created or overwritten with the time of the
\* call when the call is allowed; a denied call finds an entry and leaves it, and
\* every other entry is left alone either way.
C13_StampedWhenAllowed ==
    [][\A p \in Phones :
          (last'.op = "incoming_call" /\ last'.phone = p)
              => /\ p \in DOMAIN rate_limits'
                 /\ last'.outcome = "Menu" => rate_limits'[p] = now
                 /\ last'.outcome = "RateLimited"
                        => (p \in DOMAIN rate_limits /\ rate_limits'[p] = rate_limits[p])
                 /\ \A q \in DOMAIN rate_limits' \ {p} :
                        q \in DOMAIN rate_limits /\ rate_limits'[q] = rate_limits[q]]_vars

\* A denied call, its entry still showing the allowed call of 299 s before.
C13_Witness ==
    /\ last.op = "incoming_call"
    /\ last.outcome = "RateLimited"
    /\ now >= RATE_LIMIT_SECONDS
    /\ rate_limits[last.phone] = now - (RATE_LIMIT_SECONDS - 1)

\* C14: a verify_code(p, x) that returns Mismatch keeps p's session with attempts
\* raised by exactly 1 and code and expiry as they were, and changes no other
\* number's session and no rate-limit entry; and a verify_code with the session's
\* code, before the deadline, on a session that Mismatches have left with
\* attempts 1 or 2, returns Success.
C14_MismatchKeepsSession ==
    [][\A p \in Phones :
          (last'.op = "verify_code" /\ last'.phone = p)
              => /\ last'.outcome = "Mismatch"
                     => /\ p \in DOMAIN verification_sessions
                        /\ Stored(verification_sessions', heap', p) =
                               {[Sess(p) EXCEPT !.attempts = @ + 1]}
                        /\ \A q \in Phones \ {p} :
                               Stored(verification_sessions', heap', q) =
                                   Stored(verification_sessions, heap, q)
                        /\ rate_limits' = rate_limits
                 /\ (p \in DOMAIN verification_sessions
                       /\ Sess(p).attempts >= 1 /\ Sess(p).attempts < MAX_ATTEMPTS
                       /\ last'.correct /\ ~last'.late)
                        => last'.outcome = "Success"]_vars

\* Two wrong codes, then the right one accepted, the other number's session and
\* the caller's rate-limit entry being there all along.
C14_Witness ==
    \E p \in Phones :
        /\ Begun(history[p])
        /\ Checks(history[p]) = 3
        /\ OutcomeAt(history[p], 1) = "Mismatch"
        /\ OutcomeAt(history[p], 2) = "Mismatch"
        /\ OutcomeAt(history[p], 3) = "Success"
        /\ DOMAIN verification_sessions = Phones \ {p}
        /\ p \in DOMAIN rate_limits

\* C15: a denied /incoming-call answers with the rate-limited prompt and no menu and
\* changes neither map; an allowed one changes only the caller's rate-limit entry;
\* a menu choice of "2", another digit or no digit changes neither map and ends the
\* call.
C15_OnlyTheCallersStamp ==
    [][/\ \A p \in Phones :
            (last'.op = "incoming_call" /\ last'.phone = p)
                => /\ verification_sessions' = verification_sessions /\ heap' = heap
                   /\ \/ /\ last'.outcome = "RateLimited"
                         /\ gather_action(last'.outcome) = "none"
                         /\ rate_limits' = rate_limits
                      \/ /\ last'.outcome = "Menu"
                         /\ rate_limits' = Put(rate_limits, p, now)
       /\ \A p \in Phones, choice \in Choices \ {<<1>>} :
            (last'.op = "verification_choice" /\ last'.phone = p /\ VerificationChoice(p, choice))
                => /\ last'.outcome = IF choice = <<2>> THEN "Handoff" ELSE "InvalidChoice"
                   /\ gather_action(last'.outcome) = "none"
                   /\ verification_sessions' = verification_sessions /\ heap' = heap
                   /\ rate_limits' = rate_limits]_vars

\* A choice other than "1" or "2" made while both maps hold entries.
C15_Witness ==
    /\ last.op = "verification_choice"
    /\ last.outcome = "InvalidChoice"
    /\ DOMAIN verification_sessions = Phones
    /\ rate_limits # EmptyDict

\* C16: time alone removes no session: a stored session, expired or at 3 attempts
\* included, leaves the store only by a verify_code of its number and is replaced
\* only by a choice of "1" for its number; a 'status' message is answered with
\* "pending" exactly when a record exists for the sender, whatever its state, and an
\* SMS changes nothing.
C16_RemovedOnlyOnAccess ==
    [][/\ last'.op = "tick" => (verification_sessions' = verification_sessions /\ heap' = heap)
       /\ \A p \in DOMAIN verification_sessions :
            /\ p \notin DOMAIN verification_sessions'
                   => (last'.op = "verify_code" /\ last'.phone = p)
            /\ Stored(verification_sessions', heap', p) # Stored(verification_sessions, heap, p)
                   => /\ last'.op \in {"verify_code", "verification_choice"}
                      /\ last'.phone = p
            /\ (now > Sess(p).expires \/ Sess(p).attempts >= MAX_ATTEMPTS)
                   => \/ Stored(verification_sessions', heap', p)
                             = Stored(verification_sessions, heap, p)
                      \/ /\ last'.op = "verify_code"
                         /\ p \notin DOMAIN verification_sessions'
                      \/ /\ last'.op = "verification_choice"
                         /\ Stored(verification_sessions', heap', p)
                                = {NewSession(IntOf(last'.code), now)}
       /\ \A p \in Phones, body \in Bodies :
            (last'.op = "incoming_sms" /\ last'.phone = p /\ IncomingSms(p, body))
                => /\ verification_sessions' = verification_sessions /\ heap' = heap
                   /\ rate_limits' = rate_limits
                   /\ lower(strip(body)) = <<"s", "t", "a", "t", "u", "s">>
                          => /\ last'.outcome \in {"SmsPending", "SmsNoPending"}
                             /\ last'.outcome = "SmsNoPending"
                                    <=> p \notin DOMAIN verification_sessions
                   /\ lower(strip(body)) # <<"s", "t", "a", "t", "u", "s">>
                          => last'.outcome \in {"SmsHelp", "SmsDefault"}]_vars

\* 'status' answered "pending" for a session that is both expired and at 3 attempts.
C16_Witness ==
    /\ last.op = "incoming_sms"
    /\ last.outcome = "SmsPending"
    /\ last.phone \in DOMAIN verification_sessions
    /\ now > Sess(last.phone).expires
    /\ Sess(last.phone).attempts = MAX_ATTEMPTS

\* C17 as stated: however verify_code and generate_verification_code executions for
\* one number interleave, a verify_code execution that deletes the number's entry
\* deletes the session object it examined, never a newer one, and no session object
\* has answered Success to two verify_code executions.
C17_AsStated ==
    [][/\ \A t \in Threads :
            (/\ frame[t].handler = "verify_code"
             /\ pc[t] # "done" /\ pc'[t] = "done"
             /\ frame[t].phone \in DOMAIN verification_sessions
             /\ frame[t].phone \notin DOMAIN verification_sessions')
                => verification_sessions[frame[t].phone] = frame[t].session
       /\ \A t \in Threads : \A u \in Threads \ {t} :
            ~ /\ pc'[t] = "done" /\ frame'[t].outcome = "Success"
              /\ pc'[u] = "done" /\ frame'[u].outcome = "Success"
              /\ frame'[t].session = frame'[u].session]_vars

\* C18: a choice of "1" whose message dispatch fails answers with the
\* technical-difficulty prompt and no gather for the code, yet leaves the session
\* it created in the store (fresh 6-digit code, attempts 0, expiry 10 minutes on)
\* in place of any previous one; the next verify_code for the number is checked
\* against that undelivered code.
C18_UndeliveredCodeStays ==
    [][/\ \A p \in Phones :
            (last'.op = "verification_choice" /\ last'.phone = p
                 /\ last'.outcome = "DispatchFailure")
                => /\ gather_action(last'.outcome) = "none"
                   /\ Len(last'.code) = 6
                   /\ IntOf(last'.code) \in CODE_MIN..CODE_MAX
                   /\ Stored(verification_sessions', heap', p)
                          = {[code |-> last'.code, expires |-> now + EXPIRY_SECONDS,
                              attempts |-> 0, created |-> now]}
                   /\ \A q \in Phones \ {p} :
                          Stored(verification_sessions', heap', q)
                              = Stored(verification_sessions, heap, q)
       /\ \A p \in Verifiers, entered \in EnteredCodes :
            (/\ last.op = "verification_choice" /\ last.phone = p
             /\ last.outcome = "DispatchFailure"
             /\ last'.op = "verify_code"
             /\ VerifyCode(p, entered))
                => /\ last'.outcome = IF entered = last.code THEN "Success" ELSE "Mismatch"
                   /\ last'.after = 1]_vars

\* A failed dispatch whose session has replaced one that had attempts against it.
C18_Witness ==
    /\ last.op = "verification_choice"
    /\ last.outcome = "DispatchFailure"
    /\ last.had /\ last.attempts >= 1
    /\ Stored(verification_sessions, heap, last.phone)
           = {[code |-> last.code, expires |-> now + EXPIRY_SECONDS,
               attempts |-> 0, created |-> now]}

\* C19: when each call is /incoming-call, then at most one
\* /handle_verification_choice, then at most one /verify_code reached only through
\* the code prompt, and a number's calls do not overlap, every stored session has
\* attempts <= 1, no verify_code returns TooManyAttempts or NoSession, and a call
\* waiting for the code has a session created in that call with no attempt made.
C19_CallTreeSafety ==
    /\ \A p \in DOMAIN verification_sessions : Sess(p).attempts <= 1
    /\ last.op = "verify_code"
           => /\ last.outcome \notin {"TooManyAttempts", "NoSession"}
              /\ last.had /\ last.attempts = 0
    /\ \A p \in Phones :
            stage[p] = "code"
                => /\ p \in DOMAIN verification_sessions
                   /\ p \in DOMAIN rate_limits
                   /\ Sess(p).attempts = 0
                   /\ Sess(p).created >= rate_limits[p]

\* A later call at its menu while the session of an earlier call, with its one
\* failed attempt, is still stored.
C19_Witness ==
    \E p \in Phones :
        /\ stage[p] = "menu"
        /\ p \in DOMAIN verification_sessions
        /\ Sess(p).attempts = 1
        /\ Sess(p).created < rate_limits[p]

====
